---------------------------- MODULE Spec2Model ----------------------------
(***************************************************************************)
(* Model of lib/SILOptimizer/Utils/Differentiation/Common.cpp:             *)
(*   getAllocateUninitializedArrayIntrinsicElementAddress                   *)
(*   getSingleDestructureTupleUser                                          *)
(*   forEachApplyDirectResult                                               *)
(*   collectMinimalIndicesForFunctionCall                                   *)
(*                                                                         *)
(* The SIL instruction graph is read-only input.  A value is a triple      *)
(* <<kind, a, b>>; an instruction of a definition chain is a record        *)
(* [kind, semantics].  `assert` in the source is the fatal path.           *)
(***************************************************************************)
EXTENDS Integers, Sequences, FiniteSets

VARIABLES
  \* --- getSingleDestructureTupleUser, applied on its own ---
  value,            \* the SILValue given: [isTuple, uses]
  located,          \* [state, fatal, result]: the outcome once state = "done"
  \* --- getAllocateUninitializedArrayIntrinsicElementAddress ---
  chain,            \* the definition chain of the SILValue given
  traced,           \* [kind, at]: "pending", then the outcome
  \* --- collectMinimalIndicesForFunctionCall ---
  ai,               \* the ApplyInst: [isTuple, uses, params, calleeResults]
  active,           \* the values activityInfo.isActive reports active
  pc,               \* position in the function body
  run,              \* 1: first invocation, 2: second invocation on the same call
  currentParamIdx,
  paramIndices,
  directResults,
  dirResIdx,
  indResIdx,
  results,
  resultIndices,
  queries,          \* log of activityInfo.isActive calls: <<site, position, value>>
  firstResults      \* `results` of the first invocation, kept by the caller

vars == <<value, located, chain, traced, ai, active, pc, run, currentParamIdx,
          paramIndices, directResults, dirResIdx, indResIdx, results,
          resultIndices, queries, firstResults>>

locatorVars == <<value, located>>
tracerVars == <<chain, traced>>
collectorVars == <<ai, active, pc, run, currentParamIdx, paramIndices,
                   directResults, dirResIdx, indResIdx, results, resultIndices,
                   queries, firstResults>>

-----------------------------------------------------------------------------
(* Bounds of the model *)

MaxUses == 4          \* length of a use list given to the locator
MaxChain == 6         \* length of a definition chain given to the tracer
MaxCallUses == 2      \* length of the use list of the call
MaxArgs == 2          \* arguments of the call without the indirect results
MaxResults == 3       \* declared results of the callee

-----------------------------------------------------------------------------
(* getSingleDestructureTupleUser *)

\* Kinds of the instructions that use a tuple-typed value.
TupleUserKinds == {"destructure_tuple", "tuple_extract", "return"}

\* Kinds of the instructions that use a value that is not a tuple
\* (destructure_tuple and tuple_extract take a tuple operand).
OtherUserKinds == {"return", "store"}

RECURSIVE SeqsUpTo(_, _)
SeqsUpTo(S, n) ==
  IF n = 0 THEN {<<>>}
  ELSE LET shorter == SeqsUpTo(S, n - 1)
       IN  shorter \cup {Append(s, x) : s \in {t \in shorter : Len(t) = n - 1}, x \in S}

\* The SILValues with a use list of at most n uses.
SILValues(n) ==
  {[isTuple |-> TRUE, uses |-> u] : u \in SeqsUpTo(TupleUserKinds, n)}
    \cup {[isTuple |-> FALSE, uses |-> u] : u \in SeqsUpTo(OtherUserKinds, n)}

\* The loop over value->getUses(), from use i on; a user is named by its
\* position in the use list, 0 is nullptr.
RECURSIVE ScanUsesNoAssert(_, _, _, _)
ScanUsesNoAssert(uses, i, foundDestructureTupleUser, result) ==
  IF i > Len(uses) THEN [fatal |-> FALSE, result |-> result]
  ELSE IF uses[i] = "destructure_tuple"
       THEN ScanUsesNoAssert(uses, i + 1, TRUE, i)
       ELSE ScanUsesNoAssert(uses, i + 1, foundDestructureTupleUser, result)

RECURSIVE ScanUses(_, _, _, _)
ScanUses(uses, i, foundDestructureTupleUser, result) ==
  IF i > Len(uses) THEN [fatal |-> FALSE, result |-> result]
  ELSE IF uses[i] = "destructure_tuple"
       THEN IF foundDestructureTupleUser
            THEN [fatal |-> TRUE, result |-> 0]
            ELSE ScanUses(uses, i + 1, TRUE, i)
       ELSE ScanUses(uses, i + 1, foundDestructureTupleUser, result)

getSingleDestructureTupleUser(v) ==
  IF ~v.isTuple THEN [fatal |-> FALSE, result |-> 0]
  ELSE ScanUses(v.uses, 1, FALSE, 0)

Outcome(state, r) == [state |-> state, fatal |-> r.fatal, result |-> r.result]

NoOutcome == [fatal |-> FALSE, result |-> 0]

LocatorIdle ==
  /\ value = [isTuple |-> FALSE, uses |-> <<>>]
  /\ located = Outcome("idle", NoOutcome)

LocatorInit ==
  /\ value \in SILValues(MaxUses)
  /\ located = Outcome("pending", NoOutcome)

Locate ==
  /\ located.state = "pending"
  /\ located' = Outcome("done", getSingleDestructureTupleUser(value))
  /\ UNCHANGED value

-----------------------------------------------------------------------------
(* getAllocateUninitializedArrayIntrinsicElementAddress *)

Inst(k) == [kind |-> k, semantics |-> ""]
Apply(s) == [kind |-> "apply", semantics |-> s]

Applies == {Apply(""), Apply("array.uninitialized_intrinsic"), Apply("array.get_count")}

\* What can define the operand the chain follows from an instruction:
\* the base of index_addr is an address, the operand of pointer_to_address a
\* raw pointer, the operand of destructure_tuple a tuple.  "argument" is a
\* block or function argument: a value with no defining instruction.
OperandDefs(inst) ==
  CASE inst.kind = "index_addr" ->
         {Inst("pointer_to_address"), Inst("index_addr"), Inst("alloc_stack"),
          Inst("argument")}
    [] inst.kind = "pointer_to_address" ->
         {Inst("destructure_tuple"), Inst("address_to_pointer"), Inst("argument")}
           \cup Applies
    [] inst.kind = "destructure_tuple" ->
         {Inst("tuple"), Inst("argument")} \cup Applies
    [] OTHER -> {}

\* An address-typed value is defined by one of these.
AddressDefs ==
  {Inst("pointer_to_address"), Inst("index_addr"), Inst("alloc_stack"), Inst("argument")}

\* The definition chains of at most n instructions that start at inst and end
\* where the chain has no operand to follow.
RECURSIVE ChainsFrom(_, _)
ChainsFrom(inst, n) ==
  IF OperandDefs(inst) = {} THEN {<<inst>>}
  ELSE IF n <= 1 THEN {}
  ELSE UNION {{<<inst>> \o c : c \in ChainsFrom(d, n - 1)} : d \in OperandDefs(inst)}

Chains(n) == UNION {ChainsFrom(d, n) : d \in AddressDefs}

isArrayLiteralIntrinsic(inst) == inst.semantics = "array.uninitialized_intrinsic"

\* At position p of chain c: the call there if it is the intrinsic, else none.
getAllocateUninitializedArrayIntrinsic(c, p) ==
  IF c[p].kind = "apply" /\ isArrayLiteralIntrinsic(c[p])
  THEN [kind |-> "call", at |-> p]
  ELSE [kind |-> "none", at |-> 0]

\* Position of the pointer_to_address found, peering through one index_addr;
\* 0 is nullptr.
FindPointerToAddress(c) ==
  IF c[1].kind = "index_addr"
  THEN IF c[2].kind = "pointer_to_address" THEN 2 ELSE 0
  ELSE IF c[1].kind = "pointer_to_address" THEN 1 ELSE 0

\* Mutated: any call under the destructure_tuple is taken for the intrinsic.
TraceAnyCall(c) ==
  LET ptai == FindPointerToAddress(c) IN
  IF ptai = 0 THEN {[kind |-> "none", at |-> 0]}
  ELSE IF c[ptai + 1].kind = "argument"
       THEN {[kind |-> "fatal", at |-> 0], [kind |-> "none", at |-> 0]}
  ELSE IF c[ptai + 1].kind = "destructure_tuple"
       THEN {IF c[ptai + 2].kind = "apply"
             THEN [kind |-> "call", at |-> ptai + 2]
             ELSE [kind |-> "none", at |-> 0]}
  ELSE {[kind |-> "none", at |-> 0]}

\* The set of outcomes of the function on the value that chain c defines.
\* dyn_cast<DestructureTupleInst> of the null getDefiningInstruction() of an
\* argument is undefined: dyn_cast requires a non-null pointer (it asserts in
\* a checked build, and reads the kind through the null pointer otherwise).
getAllocateUninitializedArrayIntrinsicElementAddress(c) ==
  LET ptai == FindPointerToAddress(c) IN
  IF ptai = 0 THEN {[kind |-> "none", at |-> 0]}
  ELSE IF c[ptai + 1].kind = "argument"
       THEN {[kind |-> "fatal", at |-> 0], [kind |-> "none", at |-> 0]}
  ELSE IF c[ptai + 1].kind = "destructure_tuple"
       THEN {getAllocateUninitializedArrayIntrinsic(c, ptai + 2)}
  ELSE {[kind |-> "none", at |-> 0]}

TracerIdle == chain = <<>> /\ traced = [kind |-> "idle", at |-> 0]

TracerInit == chain \in Chains(MaxChain) /\ traced = [kind |-> "pending", at |-> 0]

Trace ==
  /\ traced.kind = "pending"
  /\ traced' \in getAllocateUninitializedArrayIntrinsicElementAddress(chain)
  /\ UNCHANGED chain

-----------------------------------------------------------------------------
(* forEachApplyDirectResult and collectMinimalIndicesForFunctionCall *)

Null == <<"null", 0, 0>>               \* the null SILValue
Junk == <<"junk", 0, 0>>               \* whatever lies past the end of a buffer
AiValue == <<"apply", 0, 0>>           \* the call's own value
DtiResult(u, k) == <<"destructure_tuple", u, k>>   \* result k of the user at use u
IndirectResult(j) == <<"indirect_result", j, 0>>   \* indirect-result argument j
Argument(p) == <<"argument", p, 0>>

ResultConventions == {"direct", "indirect"}

Count(s, x) == Cardinality({i \in 1..Len(s) : s[i] = x})

\* calleeConvs.getResults() restricted to the first n results.
NumBefore(s, n, x) == Cardinality({i \in 1..n : s[i] = x})

\* The users of the call's value looked at: of a tuple its destructure_tuple
\* and tuple_extract users, of any other value a store.
CallUserKinds(isTuple) ==
  IF isTuple THEN {"destructure_tuple", "tuple_extract"} ELSE {"store"}

\* The calls: the type of the call is a tuple unless the callee has exactly
\* one direct result, the users are those its type admits, and the arguments
\* for the callee's parameters are distinct values.
Calls ==
  {[isTuple |-> Count(cr, "direct") # 1, uses |-> u,
    params |-> [p \in 1..n |-> Argument(p)], calleeResults |-> cr] :
     cr \in SeqsUpTo(ResultConventions, MaxResults),
     u \in SeqsUpTo(CallUserKinds(TRUE) \cup CallUserKinds(FALSE), MaxCallUses),
     n \in 0..MaxArgs}

WellTyped(call) ==
  \A i \in 1..Len(call.uses) : call.uses[i] \in CallUserKinds(call.isTuple)

\* ai->getIndirectSILResults(): one argument per indirect result of the callee.
getIndirectSILResults(call) ==
  [j \in 1..Count(call.calleeResults, "indirect") |-> IndirectResult(j)]

\* ai->getArguments(): the indirect-result addresses, then the arguments for
\* the callee's parameters.
getArguments(call) == getIndirectSILResults(call) \o call.params

\* Mutated: the indirect-result addresses are not dropped.
getAllArguments(call) == getArguments(call)

getArgumentsWithoutIndirectResults(call) ==
  SubSeq(getArguments(call), Len(getIndirectSILResults(call)) + 1, Len(getArguments(call)))

\* dti->getResults(): one result per element of the tuple.
getResults(call, u) ==
  [k \in 1..Count(call.calleeResults, "direct") |-> DtiResult(u, k)]

\* The values handed to resultCallback, in order.
forEachApplyDirectResult(call) ==
  IF ~call.isTuple THEN [fatal |-> FALSE, results |-> <<AiValue>>]
  ELSE LET dti == getSingleDestructureTupleUser(call) IN
       IF dti.fatal THEN [fatal |-> TRUE, results |-> <<>>]
       ELSE IF dti.result = 0 THEN [fatal |-> FALSE, results |-> <<>>]
       ELSE [fatal |-> FALSE, results |-> getResults(call, dti.result)]

Range(s) == {s[i] : i \in 1..Len(s)}

\* The values of a call the oracle may be asked about.  Junk is among them
\* only for a call whose walk can index past the end of directResults.
CallValues(call) ==
  Range(getArguments(call))
    \cup Range(forEachApplyDirectResult(call).results)
    \cup (IF /\ ~forEachApplyDirectResult(call).fatal
              /\ Len(forEachApplyDirectResult(call).results) < Count(call.calleeResults, "direct")
           THEN {Junk} ELSE {})

\* activityInfo.isActive(v, parentIndices): a lookup of v, false for null.
isActive(v) == v \in active

FatalPcs == {"assert_single_destructure", "out_of_range", "assert_active_results",
             "assert_num_results"}

CollectorIdle ==
  /\ ai = [isTuple |-> TRUE, uses |-> <<>>, params |-> <<>>, calleeResults |-> <<>>]
  /\ active = {}
  /\ pc = "idle"
  /\ run = 0
  /\ currentParamIdx = 0
  /\ paramIndices = <<>>
  /\ directResults = <<>>
  /\ dirResIdx = 0
  /\ indResIdx = 0
  /\ results = <<>>
  /\ resultIndices = <<>>
  /\ queries = <<>>
  /\ firstResults = <<>>

CollectorInit ==
  /\ ai \in {c \in Calls : WellTyped(c)}
  /\ active \in SUBSET CallValues(ai)
  /\ pc = "params"
  /\ run = 1
  /\ currentParamIdx = 0
  /\ paramIndices = <<>>
  /\ directResults = <<>>
  /\ dirResIdx = 0
  /\ indResIdx = 0
  /\ results = <<>>
  /\ resultIndices = <<>>
  /\ queries = <<>>
  /\ firstResults = <<>>

\* One iteration of the loop over ai->getArgumentsWithoutIndirectResults().
ParamStep ==
  /\ pc = "params"
  /\ currentParamIdx < Len(getArgumentsWithoutIndirectResults(ai))
  /\ LET applyArg == getArgumentsWithoutIndirectResults(ai)[currentParamIdx + 1] IN
       /\ queries' = Append(queries, <<"param", currentParamIdx, applyArg>>)
       /\ paramIndices' = IF isActive(applyArg)
                           THEN Append(paramIndices, currentParamIdx)
                           ELSE paramIndices
  /\ currentParamIdx' = currentParamIdx + 1
  /\ UNCHANGED <<ai, active, pc, run, directResults, dirResIdx, indResIdx, results,
                 resultIndices, firstResults>>

\* The end of the parameter loop, forEachApplyDirectResult into directResults,
\* and the initialisation of the result walk.
CollectDirect ==
  /\ pc = "params"
  /\ currentParamIdx = Len(getArgumentsWithoutIndirectResults(ai))
  /\ LET direct == forEachApplyDirectResult(ai) IN
       IF direct.fatal
       THEN /\ pc' = "assert_single_destructure"
            /\ UNCHANGED directResults
       ELSE /\ pc' = "results"
            /\ directResults' = direct.results
  /\ dirResIdx' = 0
  /\ indResIdx' = 0
  /\ UNCHANGED <<ai, active, run, currentParamIdx, paramIndices, results, resultIndices,
                 queries, firstResults>>

\* What results.push_back(directResults[dirResIdx]) can read.  In range it is
\* the element.  Past the end the source makes no check of its own: the
\* indexing either aborts (a bounds-checked operator[]) or yields what the
\* storage holds there, a null or a non-null value; "abort" stands for the
\* first.
Abort == <<"abort", 0, 0>>

ReadDirectResult ==
  IF dirResIdx < Len(directResults)
  THEN {directResults[dirResIdx + 1]}
  ELSE {Abort, Null, Junk}

\* One iteration of the loop over calleeConvs.getResults(): a formally direct
\* result.  idx, the enumerate index, is the number of results pushed so far.
ResultDirect ==
  /\ pc = "results"
  /\ Len(results) < Len(ai.calleeResults)
  /\ ai.calleeResults[Len(results) + 1] = "direct"
  /\ \E dirRes \in ReadDirectResult :
       IF dirRes = Abort
       THEN /\ pc' = "out_of_range"
            /\ UNCHANGED <<results, resultIndices, queries, dirResIdx>>
       ELSE /\ results' = Append(results, dirRes)
            /\ queries' = IF dirRes # Null
                          THEN Append(queries, <<"result", Len(results), dirRes>>)
                          ELSE queries
            /\ resultIndices' = IF dirRes # Null /\ isActive(dirRes)
                                THEN Append(resultIndices, Len(results))
                                ELSE resultIndices
            /\ dirResIdx' = dirResIdx + 1
            /\ UNCHANGED pc
  /\ UNCHANGED <<ai, active, run, currentParamIdx, paramIndices, directResults,
                 indResIdx, firstResults>>

\* Mutated: the index recorded is the position in the argument list.
ResultIndirectArgIndex ==
  /\ pc = "results"
  /\ Len(results) < Len(ai.calleeResults)
  /\ ai.calleeResults[Len(results) + 1] = "indirect"
  /\ LET indRes == getIndirectSILResults(ai)[indResIdx + 1] IN
       /\ results' = Append(results, indRes)
       /\ queries' = Append(queries, <<"result", Len(results), indRes>>)
       /\ resultIndices' = IF isActive(indRes)
                           THEN Append(resultIndices, indResIdx)
                           ELSE resultIndices
  /\ indResIdx' = indResIdx + 1
  /\ UNCHANGED <<ai, active, pc, run, currentParamIdx, paramIndices, directResults,
                 dirResIdx, firstResults>>

\* The same iteration for a formally indirect result.  indirectResults has one
\* element per indirect result of the callee, so the index is in range.
ResultIndirect ==
  /\ pc = "results"
  /\ Len(results) < Len(ai.calleeResults)
  /\ ai.calleeResults[Len(results) + 1] = "indirect"
  /\ LET indRes == getIndirectSILResults(ai)[indResIdx + 1] IN
       /\ results' = Append(results, indRes)
       /\ queries' = Append(queries, <<"result", Len(results), indRes>>)
       /\ resultIndices' = IF isActive(indRes)
                           THEN Append(resultIndices, Len(results))
                           ELSE resultIndices
  /\ indResIdx' = indResIdx + 1
  /\ UNCHANGED <<ai, active, pc, run, currentParamIdx, paramIndices, directResults,
                 dirResIdx, firstResults>>

\* llvm::any_of(results, isActive): the positions it asks about, in order, are
\* those up to the first active result, or all of them if none is active.
\* Mutated: every result is asked about, active ones before it or not.
AnyOfVisitedAll(res) == 1..Len(res)

AnyOfVisited(res) ==
  {i \in 1..Len(res) : \A j \in 1..(i - 1) : ~isActive(res[j])}

AnyOfQueries(res) ==
  [i \in 1..Cardinality(AnyOfVisited(res)) |-> <<"any_of", i - 1, res[i]>>]

\* Mutated: the check that some result is active is left out.
PostCheckNoAnyOf ==
  /\ pc = "results"
  /\ Len(results) = Len(ai.calleeResults)
  /\ pc' = "done"
  /\ UNCHANGED <<ai, active, run, currentParamIdx, paramIndices, directResults,
                 dirResIdx, indResIdx, results, resultIndices, queries, firstResults>>

\* The end of the result loop and the two assertions.
PostCheck ==
  /\ pc = "results"
  /\ Len(results) = Len(ai.calleeResults)
  /\ IF Len(results) # Len(ai.calleeResults)
     THEN pc' = "assert_num_results" /\ UNCHANGED queries
     ELSE /\ queries' = queries \o AnyOfQueries(results)
          /\ pc' = IF \E i \in 1..Len(results) : isActive(results[i])
                   THEN "done"
                   ELSE "assert_active_results"
  /\ UNCHANGED <<ai, active, run, currentParamIdx, paramIndices, directResults,
                 dirResIdx, indResIdx, results, resultIndices, firstResults>>

\* The caller invokes the function a second time on the same call, with
\* fresh output buffers, keeping the first `results`.
Reinvoke ==
  /\ pc = "done"
  /\ run = 1
  /\ run' = 2
  /\ firstResults' = results
  /\ pc' = "params"
  /\ currentParamIdx' = 0
  /\ paramIndices' = <<>>
  /\ directResults' = <<>>
  /\ dirResIdx' = 0
  /\ indResIdx' = 0
  /\ results' = <<>>
  /\ resultIndices' = <<>>
  /\ queries' = <<>>
  /\ UNCHANGED <<ai, active>>

-----------------------------------------------------------------------------
(* Specifications *)

\* collectMinimalIndicesForFunctionCall on every call within the bounds.
Init == CollectorInit /\ LocatorIdle /\ TracerIdle

Next ==
  \/ ParamStep /\ UNCHANGED <<locatorVars, tracerVars>>
  \/ CollectDirect /\ UNCHANGED <<locatorVars, tracerVars>>
  \/ ResultDirect /\ UNCHANGED <<locatorVars, tracerVars>>
  \/ ResultIndirect /\ UNCHANGED <<locatorVars, tracerVars>>
  \/ PostCheck /\ UNCHANGED <<locatorVars, tracerVars>>
  \/ Reinvoke /\ UNCHANGED <<locatorVars, tracerVars>>

Spec == Init /\ [][Next]_vars

\* getSingleDestructureTupleUser on every value within the bounds.
LocatorSpecInit == LocatorInit /\ CollectorIdle /\ TracerIdle

LocatorNext == Locate /\ UNCHANGED <<collectorVars, tracerVars>>

LocatorSpec == LocatorSpecInit /\ [][LocatorNext]_vars

\* getAllocateUninitializedArrayIntrinsicElementAddress on every chain within
\* the bounds.
TracerSpecInit == TracerInit /\ CollectorIdle /\ LocatorIdle

TracerNext == Trace /\ UNCHANGED <<collectorVars, locatorVars>>

TracerSpec == TracerSpecInit /\ [][TracerNext]_vars

-----------------------------------------------------------------------------
(* Properties of getSingleDestructureTupleUser (LocatorSpec) *)

DestructureUsers(v) == {i \in 1..Len(v.uses) : v.uses[i] = "destructure_tuple"}

\* C5: for a value that is not a tuple the locator returns none; for a tuple
\* with no destructure_tuple user it returns none; with exactly one it returns
\* that user, wherever it sits among the other users; with two or more it
\* ends in the assertion failure and returns no user.
LocatorContract ==
  located.state = "done" =>
    /\ ~value.isTuple => ~located.fatal /\ located.result = 0
    /\ value.isTuple /\ Cardinality(DestructureUsers(value)) = 0 =>
         ~located.fatal /\ located.result = 0
    /\ value.isTuple /\ Cardinality(DestructureUsers(value)) = 1 =>
         ~located.fatal /\ located.result \in DestructureUsers(value)
    /\ value.isTuple /\ Cardinality(DestructureUsers(value)) >= 2 =>
         located.fatal /\ located.result = 0

\* A tuple with two destructure_tuple users, separated by another user, on
\* which the locator has failed.
LocatorFailedOnTwoUsers ==
  /\ located.state = "done"
  /\ located.fatal
  /\ value.isTuple
  /\ value.uses = <<"destructure_tuple", "tuple_extract", "destructure_tuple">>

-----------------------------------------------------------------------------
(* Properties of getAllocateUninitializedArrayIntrinsicElementAddress       *)
(* (TracerSpec)                                                             *)

Returned == traced.kind \in {"none", "call", "fatal"}

KindAt(p) == IF p <= Len(chain) THEN chain[p].kind ELSE "absent"

IsIntrinsicAt(p) ==
  p <= Len(chain) /\ chain[p] = Apply("array.uninitialized_intrinsic")

\* The position of the address-from-integer conversion of the recognised
\* shape: the value itself, or the base of the one element-offset computation.
ConversionAt ==
  IF KindAt(1) = "pointer_to_address" THEN 1
  ELSE IF KindAt(1) = "index_addr" /\ KindAt(2) = "pointer_to_address" THEN 2
  ELSE 0

\* C6: a conversion of an output of a decomposition of a tagged call yields
\* that call, also behind one element-offset computation; a decomposition of
\* anything else, and an unrelated address, yield none.
TracerContract ==
  Returned =>
    /\ ConversionAt > 0 /\ KindAt(ConversionAt + 1) = "destructure_tuple"
         /\ IsIntrinsicAt(ConversionAt + 2) =>
           traced = [kind |-> "call", at |-> ConversionAt + 2]
    /\ ConversionAt > 0 /\ KindAt(ConversionAt + 1) = "destructure_tuple"
         /\ ~IsIntrinsicAt(ConversionAt + 2) =>
           traced = [kind |-> "none", at |-> 0]
    /\ KindAt(1) \in {"alloc_stack", "argument"} => traced = [kind |-> "none", at |-> 0]

\* The allocation found behind an element-offset computation.
TracedThroughIndexAddr ==
  /\ chain = <<Inst("index_addr"), Inst("pointer_to_address"), Inst("destructure_tuple"),
               Apply("array.uninitialized_intrinsic")>>
  /\ traced = [kind |-> "call", at |-> 4]

\* The chain deviates from the recognised shape.
Deviates ==
  ~(ConversionAt > 0 /\ KindAt(ConversionAt + 1) = "destructure_tuple"
      /\ IsIntrinsicAt(ConversionAt + 2))

\* C7: the tracer never fails; on every chain that deviates from the
\* recognised shape it returns none.
TracerNeverFails ==
  Returned => traced.kind # "fatal" /\ (Deviates => traced.kind = "none")

-----------------------------------------------------------------------------
(* Properties of collectMinimalIndicesForFunctionCall (Spec) *)

StrictlyAscending(s) == \A i, j \in 1..Len(s) : i < j => s[i] < s[j]

\* The direct contribution: the call's own value if its type is not a tuple,
\* else the results of its single destructure_tuple user, if it has one.
DirectContribution ==
  IF ~ai.isTuple THEN <<AiValue>>
  ELSE IF Cardinality(DestructureUsers(ai)) = 1
       THEN getResults(ai, CHOOSE u \in DestructureUsers(ai) : TRUE)
       ELSE <<>>

ActiveResultPositions ==
  {i \in 0..(Len(results) - 1) : results[i + 1] # Null /\ isActive(results[i + 1])}

\* Scenario B: one direct and one indirect result, only the indirect active.
ScenarioB ==
  /\ ai.calleeResults = <<"direct", "indirect">>
  /\ ~isActive(AiValue)
  /\ isActive(IndirectResult(1))

\* C2: when the collector completes, resultIndices lists, in strictly
\* ascending order, exactly the declared positions whose merged entry exists
\* and is active; in scenario B it is <<1>>.
ResultIndicesExact ==
  pc = "done" =>
    /\ StrictlyAscending(resultIndices)
    /\ Range(resultIndices) = ActiveResultPositions
    /\ ScenarioB => resultIndices = <<1>>

\* Scenario B completed, with an active argument ahead of an inactive one.
ScenarioBDone ==
  /\ pc = "done"
  /\ ScenarioB
  /\ ai.params = <<Argument(1), Argument(2)>>
  /\ isActive(Argument(1)) /\ ~isActive(Argument(2))
  /\ resultIndices = <<1>>
  /\ paramIndices = <<0>>

\* The positions, among the arguments without the indirect-result addresses,
\* of the active arguments.
ActiveParamPositions ==
  {p \in 0..(Len(ai.params) - 1) : isActive(ai.params[p + 1])}

\* Scenario A: (Int, Float) -> (Int, Float), both results direct; argument 0
\* and result 1 active, argument 1 and result 0 inactive.
ScenarioA ==
  /\ ai.calleeResults = <<"direct", "direct">>
  /\ ai.params = <<Argument(1), Argument(2)>>
  /\ ai.uses = <<"destructure_tuple">>
  /\ active = {Argument(1), DtiResult(1, 2)}

\* C3: when the collector completes, paramIndices lists, in strictly
\* ascending order, exactly the positions of the active arguments, counted
\* with the indirect-result addresses left out; in scenario A the output is
\* parameters <<0>>, results <<1>>.
ParamIndicesExact ==
  pc = "done" =>
    /\ StrictlyAscending(paramIndices)
    /\ Range(paramIndices) = ActiveParamPositions
    /\ ScenarioA => paramIndices = <<0>> /\ resultIndices = <<1>>

\* An active argument of a call that also passes an active indirect-result
\* address: the address contributes no parameter index.
ParamsBesideIndirectResult ==
  /\ pc = "done"
  /\ ai.calleeResults = <<"indirect">>
  /\ ai.params = <<Argument(1), Argument(2)>>
  /\ active = {IndirectResult(1), Argument(2)}
  /\ paramIndices = <<1>>

\* C4: the collector returns normally only with a non-empty resultIndices;
\* once the walk is over and no merged result is active, it has failed.
ActiveResultRequired ==
  /\ pc = "done" => resultIndices # <<>>
  /\ pc \in {"done"} \cup FatalPcs /\ Len(results) = Len(ai.calleeResults)
       /\ (\A i \in 1..Len(results) : ~isActive(results[i]))
       => pc \in FatalPcs

\* The walk is over two inactive results and the assertion has failed.
NoActiveResultFailed ==
  /\ pc = "assert_active_results"
  /\ Len(results) = 2
  /\ resultIndices = <<>>

QueriesAt(site, pos) ==
  {q \in 1..Len(queries) : queries[q][1] = site /\ queries[q][2] = pos}

QueriesOf(sites, v) ==
  {q \in 1..Len(queries) : queries[q][1] \in sites /\ queries[q][3] = v}

\* C8: in one invocation the oracle is queried at most once for each argument
\* occurrence and at most once for each result value.
QueriedAtMostOnce ==
  /\ \A p \in 0..MaxArgs : Cardinality(QueriesAt("param", p)) <= 1
  /\ \A i \in 1..Len(results) :
       Cardinality(QueriesOf({"result", "any_of"}, results[i])) <= 1

\* C8 as the code has it: at most one query for each argument occurrence; in
\* the walk at most one query for each result position; after the walk the
\* assertion queries the results again, in order, up to and including the
\* first active one, so a result position is queried at most twice.
QueriedOncePerSite ==
  /\ \A p \in 0..MaxArgs : Cardinality(QueriesAt("param", p)) <= 1
  /\ \A i \in 0..MaxResults :
       /\ Cardinality(QueriesAt("result", i)) <= 1
       /\ Cardinality(QueriesAt("any_of", i)) <= 1
       /\ QueriesAt("any_of", i) # {} =>
            \A j \in 0..(i - 1) : QueriesAt("any_of", j) # {} /\ ~isActive(results[j + 1])

\* A completed invocation in which the assertion asked again about a result
\* the walk had asked about, and stopped before the second result.
ResultQueriedTwice ==
  /\ pc = "done"
  /\ Len(results) = 2
  /\ QueriesAt("result", 0) # {} /\ QueriesAt("any_of", 0) # {}
  /\ QueriesAt("result", 1) # {} /\ QueriesAt("any_of", 1) = {}

=============================================================================
